---- MODULE Spec2Model ----
(***************************************************************************)
(* DescribePDF: the page-processing orchestrator convert_pdf_to_markdown   *)
(* (describepdf/core.py) with the collaborators it calls: prompt           *)
(* resolution (config.py), the document adapter (pdf_processor.py), the    *)
(* overlay extractor (markitdown_processor.py) and the two provider        *)
(* clients (openrouter_client.py, ollama_client.py).                       *)
(*                                                                         *)
(* One behaviour of Spec is one call of convert_pdf_to_markdown.  pc is    *)
(* the position in that call; every action is one block of the function,   *)
(* with all the callbacks, appends and clean-ups that block performs.      *)
(* SelectionSpec, FormatSpec and SummarySpec run parse_page_selection,     *)
(* format_markdown_output and the summary generation (summarizer.py) over  *)
(* wider sets of arguments than the runs of Spec pass them.                *)
(***************************************************************************)
EXTENDS Integers, Sequences, FiniteSets, TLC

\* ------------------------------------------------------------------ bounds

\* Largest number of pages of a document.
MaxPages == 3

RECURSIVE Factorial(_)
Factorial(n) == IF n <= 1 THEN 1 ELSE n * Factorial(n - 1)

\* Progress fractions are exact rationals with denominator 100 * PageScale:
\* every page_num / total_pages with total_pages <= MaxPages is a multiple
\* of 1 / PageScale.
PageScale == Factorial(MaxPages)

\* The fraction h / 100 (0.05 is Hundredths(5), 1.0 is Hundredths(100)).
Hundredths(h) == h * PageScale

\* ---------------------------------------------------------------- messages

\* A status string; page is the page number formatted into it (0: none).
Msg(text) == [msg |-> text, page |-> 0]
PageMsg(text, n) == [msg |-> text, page |-> n]

\* One progress_callback(fraction, status) invocation.
Call(f, m) == [frac |-> f, status |-> m]

\* A page description: a placeholder kind, or the provider's text for a page.
Desc(kind, n) == [kind |-> kind, page |-> n]

\* ------------------------------------------------------- run configuration

Providers == {"openrouter", "ollama", "other"}

\* Sections of a page-selection string, after split(',') and strip():
\* blank, a bare integer a, a range a-b of two integers, or text that
\* int() rejects.
Blank == [t |-> "blank", a |-> 0, b |-> 0]
Page(n) == [t |-> "page", a |-> n, b |-> 0]
Range(x, y) == [t |-> "range", a |-> x, b |-> y]
Word == [t |-> "word", a |-> 0, b |-> 0]

\* cfg["page_selection"]: absent (None), a string (the empty string has no
\* sections), or a value that is not a string.
NoSelection == [kind |-> "none", sections |-> <<>>]
Selection(s) == [kind |-> "str", sections |-> s]
NonStringSelection == [kind |-> "nonstr", sections |-> <<>>]

PageSelections ==
    { NoSelection,
      Selection(<<>>),
      Selection(<<Page(2)>>),
      Selection(<<Page(3), Page(1)>>),
      Selection(<<Range(1, 2), Page(MaxPages + 1)>>),
      Selection(<<Page(1), Word>>),
      NonStringSelection }

\* The sections a selection string is made of in the parser's own
\* specification: blank, text, page numbers from 0 to one past the last
\* page, and ranges with either end up to one past the last page.
SelectionTokens ==
    {Blank, Word, Range(0, 1)}
    \cup { Page(n) : n \in 0..(MaxPages + 1) }
    \cup { Range(x, y) : x \in 1..(MaxPages + 1), y \in 1..(MaxPages + 1) }

\* Selection strings of at most two sections, and the absent selection.
SelectionStrings ==
    {NoSelection, Selection(<<>>)}
    \cup { Selection(<<a>>) : a \in SelectionTokens }
    \cup { Selection(<<a, b>>) : a \in SelectionTokens, b \in SelectionTokens }

\* ----------------------------------------------------- parse_page_selection

RECURSIVE SortedSeq(_)
SortedSeq(S) ==
    IF S = {} THEN <<>>
    ELSE LET m == CHOOSE x \in S : \A y \in S : x <= y
         IN <<m>> \o SortedSeq(S \ {m})

\* Fault: the fallback list is one-based.
AllPagesOneBased(total_pages) == [k \in 1..total_pages |-> k]

\* list(range(total_pages))
AllPages(total_pages) == [k \in 1..total_pages |-> k - 1]

ToSet(s) == { s[k] : k \in 1..Len(s) }

\* The loop over the sections: page_indices after the sections from k on,
\* or the marker <<-1>> when int() raised ValueError on one of them.
RECURSIVE CollectIndices(_, _, _, _)
CollectIndices(sections, k, total_pages, page_indices) ==
    IF k > Len(sections) THEN page_indices
    ELSE LET section == sections[k] IN
         CASE section.t = "blank" ->
                CollectIndices(sections, k + 1, total_pages, page_indices)
           [] section.t = "word" -> <<-1>>
           [] section.t = "range" ->
                LET start_idx == section.a - 1
                    end_idx == section.b - 1
                IN IF start_idx < 0 \/ end_idx >= total_pages \/ start_idx > end_idx
                   THEN CollectIndices(sections, k + 1, total_pages, page_indices)
                   ELSE CollectIndices(sections, k + 1, total_pages,
                            page_indices \o [j \in 1..(end_idx - start_idx + 1)
                                                |-> start_idx + j - 1])
           [] OTHER ->
                LET page_idx == section.a - 1
                IN IF page_idx < 0 \/ page_idx >= total_pages
                   THEN CollectIndices(sections, k + 1, total_pages, page_indices)
                   ELSE CollectIndices(sections, k + 1, total_pages,
                            Append(page_indices, page_idx))

\* Fault: the collected indices are returned as collected, without
\* sorted(set(...)).
parse_page_selection_as_collected(selection, total_pages) ==
    IF selection.kind = "none" \/ selection.sections = <<>>
    THEN AllPages(total_pages)
    ELSE LET page_indices == CollectIndices(selection.sections, 1, total_pages, <<>>)
         IN IF page_indices = <<-1>> THEN AllPages(total_pages)
            ELSE IF page_indices = <<>> THEN AllPages(total_pages)
            ELSE page_indices

\* parse_page_selection(selection_string, total_pages) for None or a string.
parse_page_selection(selection, total_pages) ==
    IF selection.kind = "none" \/ selection.sections = <<>>
    THEN AllPages(total_pages)
    ELSE LET page_indices == CollectIndices(selection.sections, 1, total_pages, <<>>)
         IN IF page_indices = <<-1>> THEN AllPages(total_pages)
            ELSE IF ToSet(page_indices) = {} THEN AllPages(total_pages)
            ELSE SortedSeq(ToSet(page_indices))

\* A value that is not a string has no split(): AttributeError, which the
\* except ValueError of parse_page_selection does not catch.
ParseRaises(selection) == selection.kind = "nonstr"

\* ------------------------------------------ get_required_prompts_for_config

PromptKeys == {"summary", "vlm_base", "vlm_markdown", "vlm_summary", "vlm_full"}

\* Fault: the standalone summary template is not among the required keys.
required_keys_without_summary(has_markdown, has_summary) ==
    {"vlm_base"}
    \cup (IF has_markdown /\ has_summary THEN {"vlm_full"}
          ELSE IF has_markdown THEN {"vlm_markdown"}
          ELSE IF has_summary THEN {"vlm_summary"}
          ELSE {})

required_keys(has_markdown, has_summary) ==
    {"vlm_base"}
    \cup (IF has_markdown /\ has_summary THEN {"vlm_full"}
          ELSE IF has_markdown THEN {"vlm_markdown"}
          ELSE IF has_summary THEN {"vlm_summary"}
          ELSE {})
    \cup (IF has_summary THEN {"summary"} ELSE {})

\* missing = [key for key in required_keys if key not in prompts]
missing_keys(prompts, use_markitdown, use_summary) ==
    required_keys(use_markitdown, use_summary) \ prompts

\* Fault: the templates that are available are returned when some are missing.
get_required_prompts_available(prompts, use_markitdown, use_summary) ==
    required_keys(use_markitdown, use_summary) \cap prompts

\* prompts: the keys of the loaded template store.  The result is the set of
\* keys of the returned map; the empty map when a required key is missing.
get_required_prompts_for_config(prompts, use_markitdown, use_summary) ==
    IF missing_keys(prompts, use_markitdown, use_summary) # {}
    THEN {}
    ELSE required_keys(use_markitdown, use_summary)

\* --------------------------------------------------------- provider clients

\* What the provider does with one request: a response carrying content, a
\* response whose content is the empty string, a response without the
\* expected content field, a timeout, the provider's error response, or
\* any other exception of the client library.
Responses ==
    {"content", "empty_content", "no_content_field", "timeout",
     "error_response", "other_exception"}

ProviderResponses(provider) ==
    IF provider = "ollama" THEN Responses \ {"timeout"} ELSE Responses

\* The outcome of a client operation: the exception raised ("" for none),
\* the value returned, and whether a request went out to the provider.
Returns(v) == [raised |-> "", value |-> v, requested |-> TRUE]
Raises(e) == [raised |-> e, value |-> "None", requested |-> TRUE]
RaisesUnsent(e) == [raised |-> e, value |-> "None", requested |-> FALSE]

\* openrouter_client.call_openrouter_api and what its two callers make of
\* the answer.  api_key and model tell whether the argument is given; the
\* model goes into the payload as it is.
call_openrouter_api(api_key, model, response) ==
    IF ~api_key THEN RaisesUnsent("ValueError")
    ELSE CASE response = "timeout" -> Raises("TimeoutError")
           [] response = "error_response" -> Raises("ConnectionError")
           [] response = "other_exception" -> Raises("Exception")
           [] response = "content" -> Returns("Text")
           [] OTHER -> Returns("None")

\* openrouter_client.get_vlm_description
openrouter_get_vlm_description(api_key, model, response) ==
    call_openrouter_api(api_key, model, response)

\* openrouter_client.get_llm_summary
openrouter_get_llm_summary(api_key, model, response) ==
    call_openrouter_api(api_key, model, response)

\* The chat call of the Ollama client library, shared by the two
\* operations.  An endpoint that is None has no rstrip(): AttributeError,
\* re-raised as it is.
ollama_chat(available, endpoint, model, response) ==
    IF ~available THEN RaisesUnsent("ImportError")
    ELSE IF ~endpoint THEN RaisesUnsent("Exception")
    ELSE CASE response = "error_response" -> Raises("ConnectionError")
           [] response = "other_exception" -> Raises("Exception")
           [] response = "timeout" -> Raises("Exception")
           [] response = "no_content_field" -> Raises("ValueError")
           [] response = "empty_content" -> Returns("Empty")
           [] OTHER -> Returns("Text")

\* ollama_client.get_vlm_description
ollama_get_vlm_description(available, endpoint, model, response) ==
    ollama_chat(available, endpoint, model, response)

\* ollama_client.get_llm_summary
ollama_get_llm_summary(available, endpoint, model, response) ==
    ollama_chat(available, endpoint, model, response)

\* ------------------------------------------------------- overlay extractor

\* What MarkItDown does with the single-page file.
Extractions == {"text", "empty_result", "no_converter", "convert_raises"}

\* markitdown_processor.get_markdown_for_page_via_temp_pdf
get_markdown_for_page_via_temp_pdf(available, file_exists, extraction) ==
    IF ~available THEN "None"
    ELSE IF ~file_exists THEN "None"
    ELSE CASE extraction = "no_converter" -> "None"
           [] extraction = "convert_raises" -> "None"
           [] extraction = "empty_result" -> "Empty"
           [] OTHER -> "Text"

\* ------------------------------------------------------- summary generator

\* What pdf_processor.extract_all_text gives: None on failure, text made of
\* white space only, or text.
TextExtractions == {"None", "Blank", "Text"}

NoText == "Document contains no extractable text."

\* What stands behind one summary request: the text extraction, whether the
\* "summary" template has text, the provider's answer, and whether the
\* summarizer module defines generate_summary at all.
SummaryEnvironments ==
    [extraction : TextExtractions, template : BOOLEAN, response : Responses,
     defined : BOOLEAN]

\* The steps of a summary generation before the provider is called: the
\* value returned at once, or "" when the call is to be made.
summary_short_circuit(env) ==
    IF env.extraction = "None" THEN "None"
    ELSE IF env.extraction = "Blank" THEN NoText
    ELSE IF ~env.template THEN "None"
    ELSE ""

\* The value a summary generation makes of the client's outcome: every
\* exception and every empty answer is None.
summary_of(outcome) ==
    IF outcome.raised # "" THEN Returns("None")
    ELSE IF outcome.value = "Text" THEN Returns("Text")
    ELSE Returns("None")

\* Fault: without the try block, the client's exception reaches the caller.
generate_summary_openrouter_unguarded(env, api_key, model) ==
    IF summary_short_circuit(env) # "" THEN Returns(summary_short_circuit(env))
    ELSE LET outcome == openrouter_get_llm_summary(api_key, model, env.response)
         IN IF outcome.raised # "" THEN outcome ELSE summary_of(outcome)

\* summarizer.generate_summary_openrouter
generate_summary_openrouter(env, api_key, model) ==
    IF summary_short_circuit(env) # "" THEN Returns(summary_short_circuit(env))
    ELSE summary_of(openrouter_get_llm_summary(api_key, model, env.response))

\* summarizer.generate_summary_ollama
generate_summary_ollama(env, available, endpoint, model) ==
    IF summary_short_circuit(env) # "" THEN Returns(summary_short_circuit(env))
    ELSE summary_of(ollama_get_llm_summary(available, endpoint, model, env.response))

\* summarizer.generate_summary(pdf_path, provider, api_key, ollama_endpoint,
\* model): the summary generation of the named provider; None without the
\* provider's credential or endpoint and for any other provider.
generate_summary(env, provider, api_key, available, ollama_endpoint, model) ==
    IF provider = "openrouter"
    THEN IF ~api_key THEN Returns("None")
         ELSE generate_summary_openrouter(env, api_key, model)
    ELSE IF provider = "ollama"
    THEN IF ~ollama_endpoint THEN Returns("None")
         ELSE generate_summary_ollama(env, available, ollama_endpoint, model)
    ELSE Returns("None")

\* ------------------------------------------------------------------- state

VARIABLES
    args,                 \* the command line of the run (NoArgs for a direct call)
    pdf_path,             \* the file to convert (a bare file name, "" when not given)
    cfg,                  \* the run configuration dictionary
    summary_env,          \* what stands behind the run's summary request
    OLLAMA_AVAILABLE,     \* ollama_client.OLLAMA_AVAILABLE
    MARKITDOWN_AVAILABLE, \* markitdown_processor.MARKITDOWN_AVAILABLE
    pc,                   \* position in convert_pdf_to_markdown
    missing_prompts,      \* required keys the template store lacks
    required_prompts,     \* keys of the map of required templates
    pdf_summary,          \* "None", a summary ("Text") or NoText
    summary_calls,        \* calls of summarizer.generate_summary
    pdf_load_progress,    \* fraction reported while the document is analysed
    pdf_doc,              \* "None" or "Doc": what get_pdf_pages returned
    docs_opened,          \* documents opened by get_pdf_pages
    close_calls,          \* invocations of pdf_doc.close
    total_pages,
    selected_indices,     \* zero-based indices the loop iterates
    pos,                  \* rank in selected_indices of the current page
    stack,                \* callbacks registered on the ExitStack
    temp_files,           \* single-page files that exist (by page index)
    temp_created,         \* single-page files ever created
    markdown_context,     \* "None", "Empty" or "Text" (current page)
    prompt,               \* the prompt prepared for the current page
    prompt_selections,    \* the variant chosen for each page that got to choose
    all_descriptions,     \* the ordered result list
    render_calls,         \* the render calls made, with whether an image came back
    overlay_calls,        \* the overlay steps run, with the text they produced
    vlm_calls,            \* the model calls made, in order
    progress_log,         \* the progress_callback invocations, in order
    result                \* the returned (status, markdown) pair

\* What no step of a run changes: the path argument and the module flags.
fixed == <<args, pdf_path, summary_env, OLLAMA_AVAILABLE, MARKITDOWN_AVAILABLE>>
resolution == <<missing_prompts, required_prompts>>
summary == <<pdf_summary, summary_calls, pdf_load_progress>>
document == <<pdf_doc, docs_opened, total_pages>>
cleanup == <<close_calls, stack, temp_files>>
iteration == <<selected_indices, pos>>
locals == <<markdown_context, prompt>>
calls == <<temp_created, prompt_selections, render_calls, overlay_calls, vlm_calls>>

vars == <<cfg, pc, fixed, resolution, summary, document, cleanup, iteration,
          locals, calls, all_descriptions, progress_log, result>>

NoPrompt ==
    [key |-> "", page_num |-> 0, total_pages |-> 0, language |-> "",
     markdown_context |-> "", summary_context |-> ""]
\* The Markdown of a run that returns None for it.
NoMarkdown == [title |-> "", sections |-> <<>>]

NoResult == [status |-> Msg(""), present |-> FALSE, markdown |-> NoMarkdown]

\* The configurations a caller passes.  openrouter_api_key, ollama_endpoint,
\* vlm_model and summary_llm_model tell whether the entry is given.  Entries
\* the run never reads for the chosen provider are left out (key only for
\* openrouter, endpoint only for ollama, summary model only with a summary);
\* a missing endpoint or model is combined with the plainest run only.
Configs ==
    { c \in [provider : Providers,
             openrouter_api_key : BOOLEAN,
             ollama_endpoint : BOOLEAN,
             vlm_model : BOOLEAN,
             summary_llm_model : BOOLEAN,
             use_markitdown : BOOLEAN,
             use_summary : BOOLEAN,
             output_language : {"English", "None"},
             page_selection : PageSelections] :
        /\ c.provider # "openrouter" => ~c.openrouter_api_key
        /\ c.provider # "ollama" => c.ollama_endpoint
        /\ ~c.use_summary => c.summary_llm_model
        /\ (~c.ollama_endpoint \/ ~c.vlm_model \/ ~c.summary_llm_model)
              => /\ ~c.use_markitdown
                 /\ c.output_language = "English"
                 /\ c.page_selection = NoSelection }

\* The summary requests of a run: the module without generate_summary, and
\* with it a summary, a document without text, and a provider error.
NoSummaryRequest ==
    [extraction |-> "None", template |-> FALSE, response |-> "content",
     defined |-> FALSE]

RunSummaryEnvironments ==
    { NoSummaryRequest,
      [extraction |-> "Text", template |-> TRUE, response |-> "content",
       defined |-> TRUE],
      [extraction |-> "Blank", template |-> TRUE, response |-> "content",
       defined |-> TRUE],
      [extraction |-> "Text", template |-> TRUE, response |-> "error_response",
       defined |-> TRUE] }

\* The parsed command line: whether there is one, and of its options the
\* page selection typed by the user, --local, --use-markitdown and
\* --use-summary.
NoArgs ==
    [cli |-> FALSE, pages |-> NoSelection, local |-> FALSE,
     use_markitdown |-> FALSE, use_summary |-> FALSE]

CliArgs ==
    { [cli |-> TRUE, pages |-> p, local |-> l, use_markitdown |-> m,
       use_summary |-> u] :
        p \in { NoSelection, Selection(<<Page(2)>>),
                Selection(<<Page(1), Range(2, 3)>>) },
        l \in BOOLEAN, m \in BOOLEAN, u \in BOOLEAN }

\* cli.run_cli: the run configuration built from the command line and the
\* environment configuration (key, endpoint, models and language taken to
\* be set there).  The dictionary gets no "page_selection" entry, so
\* cfg.get("page_selection") is None.
run_config(a) ==
    [provider |-> IF a.local THEN "ollama" ELSE "openrouter",
     openrouter_api_key |-> ~a.local,
     ollama_endpoint |-> TRUE,
     vlm_model |-> TRUE,
     summary_llm_model |-> TRUE,
     use_markitdown |-> a.use_markitdown,
     use_summary |-> a.use_summary,
     output_language |-> "English",
     page_selection |-> NoSelection]

\* The paths a caller passes: none, or the name of a file.
Paths == {"", "document.pdf"}

Init ==
    /\ args = NoArgs
    /\ pdf_path \in Paths
    /\ cfg \in Configs
    /\ summary_env \in RunSummaryEnvironments
    /\ (~cfg.use_summary => summary_env = NoSummaryRequest)
    /\ OLLAMA_AVAILABLE \in BOOLEAN
    /\ (cfg.provider # "ollama" => OLLAMA_AVAILABLE)
    /\ MARKITDOWN_AVAILABLE \in BOOLEAN
    /\ (~cfg.use_markitdown => MARKITDOWN_AVAILABLE)
    /\ pc = "start"
    /\ missing_prompts = {}
    /\ required_prompts = {}
    /\ pdf_summary = "None"
    /\ summary_calls = 0
    /\ pdf_load_progress = 0
    /\ pdf_doc = "None"
    /\ docs_opened = 0
    /\ close_calls = 0
    /\ total_pages = 0
    /\ selected_indices = <<>>
    /\ pos = 0
    /\ stack = <<>>
    /\ temp_files = {}
    /\ temp_created = {}
    /\ markdown_context = "None"
    /\ prompt = NoPrompt
    /\ prompt_selections = <<>>
    /\ all_descriptions = <<>>
    /\ render_calls = <<>>
    /\ overlay_calls = <<>>
    /\ vlm_calls = <<>>
    /\ progress_log = <<>>
    /\ result = NoResult

\* ------------------------------------------------------------ ExitStack

CloseCallback == [op |-> "close", path |-> -1]
RemoveCallback(p) == [op |-> "remove", path |-> p]

\* Leaving the with block runs every registered callback: pdf_doc.close, and
\* os.remove(p) if os.path.exists(p) for each registered file.
ClosesOnExit(callbacks) ==
    Cardinality({ k \in 1..Len(callbacks) : callbacks[k].op = "close" })

\* Fault: only the file of the last page is removed.
FilesAfterExitLastOnly(callbacks, files) ==
    LET removes == { k \in 1..Len(callbacks) : callbacks[k].op = "remove" }
    IN IF removes = {} THEN files
       ELSE files \ { callbacks[CHOOSE k \in removes : \A j \in removes : j <= k].path }

FilesAfterExit(callbacks, files) ==
    files \ { callbacks[k].path :
                k \in { j \in 1..Len(callbacks) : callbacks[j].op = "remove" } }

ExitStack ==
    /\ close_calls' = close_calls + ClosesOnExit(stack)
    /\ temp_files' = FilesAfterExit(stack, temp_files)
    /\ stack' = <<>>

\* Fault: every return is marked as carrying Markdown.
Return_marks_present(status, present, markdown) ==
    /\ result' = [status |-> status, present |-> TRUE, markdown |-> markdown]
    /\ pc' = "done"

\* Fault: what is returned is a generic message, not the status reported.
Return_generic_status(status, present, markdown) ==
    /\ result' = [status |-> Msg("Error"), present |-> present,
                  markdown |-> markdown]
    /\ pc' = "done"

\* return status, markdown
Return(status, present, markdown) ==
    /\ result' = [status |-> status, present |-> present, markdown |-> markdown]
    /\ pc' = "done"

Report(reports) == progress_log' = progress_log \o reports

\* ------------------------------------------------- convert_pdf_to_markdown

\* ollama_client.check_ollama_availability: up is whether the version
\* endpoint answers.
check_ollama_availability(available, up) == available /\ up

\* The message of the first failed pre-flight check, "" when all pass.
ValidationError(ollama_up, file_ok) ==
    IF cfg.provider = "openrouter" /\ ~cfg.openrouter_api_key
        THEN "Error: OpenRouter API Key is missing."
    ELSE IF cfg.provider = "ollama" /\ ~OLLAMA_AVAILABLE
        THEN "Error: Ollama Python client not installed."
    ELSE IF cfg.provider = "ollama"
            /\ ~check_ollama_availability(OLLAMA_AVAILABLE, ollama_up)
        THEN "Error: Could not connect to Ollama."
    ELSE IF cfg.provider \notin {"openrouter", "ollama"}
        THEN "Error: Unknown provider."
    ELSE IF pdf_path = "" \/ ~file_ok
        THEN "Error: Invalid or missing PDF file."
    ELSE ""

\* Start of the run, provider validation and input-file validation.
Validate ==
    /\ pc = "start"
    /\ \E ollama_up \in BOOLEAN, file_ok \in BOOLEAN :
         LET started == Call(Hundredths(0), Msg("Starting conversion process..."))
             msg == ValidationError(ollama_up, file_ok)
         IN IF msg # ""
            THEN /\ Report(<<started, Call(Hundredths(0), Msg(msg))>>)
                 /\ Return(Msg(msg), FALSE, NoMarkdown)
            ELSE /\ Report(<<started>>)
                 /\ pc' = "prompts"
                 /\ UNCHANGED result
    /\ UNCHANGED <<cfg, fixed, resolution, summary, document, cleanup,
                   iteration, locals, calls, all_descriptions>>

PromptsError == Msg("Error: Could not load all required prompt templates.")

\* Resolution of the required prompt templates against the template store.
LoadPrompts ==
    /\ pc = "prompts"
    /\ \E prompts \in SUBSET PromptKeys :
         LET required == get_required_prompts_for_config(
                             prompts, cfg.use_markitdown, cfg.use_summary)
         IN /\ missing_prompts' =
                  missing_keys(prompts, cfg.use_markitdown, cfg.use_summary)
            /\ required_prompts' = required
            /\ IF required = {}
               THEN /\ Report(<<Call(Hundredths(0), PromptsError)>>)
                    /\ Return(PromptsError, FALSE, NoMarkdown)
               ELSE /\ pc' = "summary"
                    /\ UNCHANGED <<progress_log, result>>
    /\ UNCHANGED <<cfg, fixed, summary, document, cleanup, iteration, locals,
                   calls, all_descriptions>>

\* Fault: the flag stays set after a failed summary.
cfg_after_summary_keeps_flag(outcome) == cfg

\* Fault: a failed summary switches the overlay text off as well.
cfg_after_summary_clears_overlay(outcome) ==
    IF outcome.raised = "" /\ outcome.value # "None" THEN cfg
    ELSE [cfg EXCEPT !.use_summary = FALSE, !.use_markitdown = FALSE]

\* cfg after the summary step: use_summary is cleared unless a summary came
\* back.
cfg_after_summary(outcome) ==
    IF outcome.raised = "" /\ outcome.value # "None" THEN cfg
    ELSE [cfg EXCEPT !.use_summary = FALSE]

\* The status reported for the outcome of the summary call.
SummaryStatus(outcome) ==
    IF outcome.raised # "" THEN Msg("Warning: Summary generation failed")
    ELSE IF outcome.value # "None" THEN Msg("Summary generated.")
    ELSE Msg("Warning: Could not generate summary")

\* The call summarizer.generate_summary(...) of the summary step; where the
\* module has no such attribute the call raises AttributeError.
call_generate_summary ==
    IF ~summary_env.defined THEN RaisesUnsent("AttributeError")
    ELSE generate_summary(summary_env, cfg.provider, cfg.openrouter_api_key,
                          OLLAMA_AVAILABLE, cfg.ollama_endpoint,
                          cfg.summary_llm_model)

\* The summary step, and the report that the document is being analysed.
GenerateSummary ==
    /\ pc = "summary"
    /\ IF cfg.use_summary
       THEN LET summary_progress == Hundredths(5)
                outcome == call_generate_summary
            IN /\ summary_calls' = summary_calls + 1
               /\ pdf_summary' = outcome.value
               /\ cfg' = cfg_after_summary(outcome)
               /\ pdf_load_progress' = summary_progress + Hundredths(5)
               /\ Report(<<Call(summary_progress, Msg("Generating summary...")),
                           Call(summary_progress, SummaryStatus(outcome)),
                           Call(summary_progress + Hundredths(5),
                                Msg("Analyzing PDF structure..."))>>)
       ELSE LET summary_progress == Hundredths(0) IN
            /\ pdf_load_progress' = summary_progress + Hundredths(5)
            /\ Report(<<Call(summary_progress + Hundredths(5),
                             Msg("Analyzing PDF structure..."))>>)
            /\ UNCHANGED <<cfg, pdf_summary, summary_calls>>
    /\ pc' = "open"
    /\ UNCHANGED <<fixed, resolution, document, cleanup, iteration, locals,
                   calls, all_descriptions, result>>

\* What opening the file can do: pymupdf.open raises; it succeeds and a
\* load_page raises; or the document loads with n pages.
DocumentOutcomes ==
    {[kind |-> "open_raises", pages |-> 0]}
    \cup {[kind |-> "load_raises", pages |-> n] : n \in 1..MaxPages}
    \cup {[kind |-> "loaded", pages |-> n] : n \in 0..MaxPages}

\* pdf_processor.get_pdf_pages: the document returned, the page count
\* returned, and the number of documents it opened.
get_pdf_pages(outcome) ==
    IF outcome.kind = "open_raises"
    THEN [doc |-> "None", total_pages |-> 0, opened |-> 0]
    ELSE IF outcome.kind = "load_raises"
    THEN [doc |-> "None", total_pages |-> 0, opened |-> 1]
    ELSE [doc |-> "Doc", total_pages |-> outcome.pages, opened |-> 1]

\* Entry of the with block: the document is opened and registered for
\* closing; an absent or empty document ends the run.
OpenDocument ==
    /\ pc = "open"
    /\ \E outcome \in DocumentOutcomes :
         LET got == get_pdf_pages(outcome)
             registered == IF got.doc # "None" THEN <<CloseCallback>> ELSE <<>>
         IN /\ pdf_doc' = got.doc
            /\ total_pages' = got.total_pages
            /\ docs_opened' = docs_opened + got.opened
            /\ IF got.doc = "None"
               THEN LET msg == Msg("Error: Could not process PDF file") IN
                    /\ Report(<<Call(pdf_load_progress, msg)>>)
                    /\ close_calls' = close_calls + ClosesOnExit(registered)
                    /\ stack' = <<>>
                    /\ Return(msg, FALSE, NoMarkdown)
               ELSE IF got.total_pages = 0
               THEN LET msg == Msg("Error: PDF file is empty") IN
                    /\ Report(<<Call(pdf_load_progress, msg)>>)
                    /\ close_calls' = close_calls + ClosesOnExit(registered)
                    /\ stack' = <<>>
                    /\ Return(msg, FALSE, NoMarkdown)
               ELSE /\ Report(<<Call(pdf_load_progress,
                                     PageMsg("PDF has pages. Starting page processing...",
                                             got.total_pages))>>)
                    /\ stack' = registered
                    /\ pc' = "select"
                    /\ UNCHANGED <<close_calls, result>>
    /\ UNCHANGED <<cfg, fixed, resolution, summary, temp_files, iteration,
                   locals, calls, all_descriptions>>

\* The top-level except Exception: a generic failure, progress reset to 0.
CriticalError == Msg("Critical Error during conversion")

\* Page-selection parsing.  An exception of the parser leaves the with block
\* and reaches the top-level handler.
SelectPages ==
    /\ pc = "select"
    /\ IF ParseRaises(cfg.page_selection)
       THEN /\ ExitStack
            /\ Report(<<Call(Hundredths(0), CriticalError)>>)
            /\ Return(CriticalError, FALSE, NoMarkdown)
            /\ UNCHANGED selected_indices
       ELSE /\ selected_indices' = parse_page_selection(cfg.page_selection, total_pages)
            /\ pc' = "loop"
            /\ UNCHANGED <<cleanup, progress_log, result>>
    /\ UNCHANGED <<cfg, fixed, resolution, summary, document, pos, locals,
                   calls, all_descriptions>>

\* ---------------------------------------------------------- the page loop

\* Fault: the selected pages are visited from the last to the first.
i_from_last == selected_indices[Len(selected_indices) + 1 - pos]

\* The locals of the current iteration: i, page_num, current_progress.
i == selected_indices[pos]
page_num == i + 1

\* page_processing_progress_start + (page_num / total_pages) * (0.98 - start)
current_progress_of(n) ==
    pdf_load_progress
      + (n * (Hundredths(98) - pdf_load_progress)) \div total_pages

current_progress == current_progress_of(page_num)

\* Start of an iteration: the next selected index, and its first report.
NextPage ==
    /\ pc = "loop"
    /\ pos < Len(selected_indices)
    /\ pos' = pos + 1
    /\ Report(<<Call(current_progress_of(selected_indices[pos + 1] + 1),
                     PageMsg("Processing page", selected_indices[pos + 1] + 1))>>)
    /\ markdown_context' = "None"
    /\ prompt' = NoPrompt
    /\ pc' = "render"
    /\ UNCHANGED <<cfg, fixed, resolution, summary, document, cleanup,
                   selected_indices, calls, all_descriptions, result>>

\* Fault: the page goes on without an image.
render_failed_ignored(image_bytes) == FALSE

\* if not image_bytes
render_failed(image_bytes) == ~image_bytes

\* Rendering of the page; without an image the page gets a placeholder and
\* the iteration ends.
RenderPage ==
    /\ pc = "render"
    /\ \E image_bytes \in BOOLEAN :
         /\ render_calls' = Append(render_calls, [index |-> i, image |-> image_bytes])
         /\ IF render_failed(image_bytes)
            THEN /\ all_descriptions' =
                       Append(all_descriptions,
                              Desc("Error: Could not render image", page_num))
                 /\ pc' = "loop"
            ELSE /\ pc' = "overlay"
                 /\ UNCHANGED all_descriptions
    /\ Report(<<Call(current_progress, PageMsg("Rendering image...", page_num))>>)
    /\ UNCHANGED <<cfg, fixed, resolution, summary, document, cleanup,
                   iteration, locals, temp_created, prompt_selections,
                   overlay_calls, vlm_calls, result>>

\* pdf_processor.save_page_as_temp_pdf: the path returned ("None" on
\* failure) and the file left behind; a failed save removes its own file.
save_page_as_temp_pdf(index, saved) ==
    IF saved THEN [path |-> "Path", files |-> {index}]
    ELSE [path |-> "None", files |-> {}]

\* Overlay-text extraction, when requested.
ExtractMarkdown ==
    /\ pc = "overlay"
    /\ IF ~cfg.use_markitdown
       THEN UNCHANGED <<markdown_context, stack, temp_files, temp_created,
                        overlay_calls, progress_log>>
       ELSE LET extracting ==
                    Call(current_progress,
                         PageMsg("Extracting text (Markitdown)...", page_num))
            IN IF ~MARKITDOWN_AVAILABLE
               THEN /\ Report(<<extracting,
                                Call(current_progress,
                                     PageMsg("Markitdown not available", page_num))>>)
                    /\ overlay_calls' =
                          Append(overlay_calls, [index |-> i, text |-> "None"])
                    /\ UNCHANGED <<markdown_context, stack, temp_files, temp_created>>
               ELSE \E saved \in BOOLEAN, extraction \in Extractions :
                      LET temp == save_page_as_temp_pdf(i, saved)
                          text == get_markdown_for_page_via_temp_pdf(
                                      MARKITDOWN_AVAILABLE, i \in temp.files, extraction)
                      IN /\ temp_created' = temp_created \cup {i}
                         /\ temp_files' = temp_files \cup temp.files
                         /\ IF temp.path = "None"
                            THEN /\ Report(<<extracting,
                                             Call(current_progress,
                                                  PageMsg("Failed to prepare for Markitdown",
                                                          page_num))>>)
                                 /\ overlay_calls' =
                                       Append(overlay_calls, [index |-> i, text |-> "None"])
                                 /\ UNCHANGED <<markdown_context, stack>>
                            ELSE /\ stack' = Append(stack, RemoveCallback(i))
                                 /\ markdown_context' = text
                                 /\ overlay_calls' =
                                       Append(overlay_calls, [index |-> i, text |-> text])
                                 /\ IF text = "None"
                                    THEN Report(<<extracting,
                                                  Call(current_progress,
                                                       PageMsg("Markitdown extraction failed.",
                                                               page_num))>>)
                                    ELSE Report(<<extracting>>)
    /\ pc' = "prompt"
    /\ UNCHANGED <<cfg, fixed, resolution, summary, document, close_calls,
                   iteration, prompt, prompt_selections, render_calls, vlm_calls,
                   all_descriptions, result>>

\* The prompt variant for (overlay text produced, summary produced).
prompt_key_for(has_markdown, has_summary) ==
    IF has_markdown /\ has_summary THEN "vlm_full"
    ELSE IF has_markdown THEN "vlm_markdown"
    ELSE IF has_summary THEN "vlm_summary"
    ELSE "vlm_base"

prompt_key ==
    prompt_key_for(cfg.use_markitdown /\ markdown_context # "None",
                   cfg.use_summary /\ pdf_summary # "None")

\* Fault: only an absent overlay text becomes "N/A", an empty one is kept.
prepare_prompt_keeps_empty(key, n, total, language, markdown, summary_text) ==
    [key |-> key, page_num |-> n, total_pages |-> total,
     language |-> language,
     markdown_context |-> IF markdown = "None" THEN "N/A" ELSE markdown,
     summary_context |-> IF summary_text = "None" THEN "N/A" ELSE summary_text]

\* Fault: the summary context of a prompt is always "N/A".
prepare_prompt_without_summary(key, n, total, language, markdown, summary_text) ==
    [key |-> key, page_num |-> n, total_pages |-> total,
     language |-> language,
     markdown_context |-> IF markdown \in {"None", "Empty"} THEN "N/A" ELSE markdown,
     summary_context |-> "N/A"]

\* The prompt text made of the chosen template: the template's key and what
\* each placeholder is replaced by wherever the template has it.  replace()
\* on a template without the placeholder changes nothing, so the two
\* "if ... in prompt_text" tests do not change the text that results.
prepare_prompt(key, n, total, language, markdown, summary_text) ==
    [key |-> key, page_num |-> n, total_pages |-> total,
     language |-> language,
     markdown_context |-> IF markdown \in {"None", "Empty"} THEN "N/A" ELSE markdown,
     summary_context |-> IF summary_text = "None" THEN "N/A" ELSE summary_text]

\* Prompt selection and preparation.  A variant that is not in the map of
\* required templates gives a placeholder; replace() with a language that is
\* not a string raises TypeError, which the page-level handler records.
SelectPrompt ==
    /\ pc = "prompt"
    /\ prompt_selections' =
          Append(prompt_selections, [page |-> page_num, key |-> prompt_key])
    /\ IF prompt_key \notin required_prompts
       THEN /\ Report(<<Call(current_progress, Msg("Missing required prompt template"))>>)
            /\ all_descriptions' =
                  Append(all_descriptions,
                         Desc("Error: missing prompt template", page_num))
            /\ pc' = "loop"
            /\ UNCHANGED prompt
       ELSE IF cfg.output_language = "None"
       THEN /\ Report(<<Call(current_progress,
                             PageMsg("Unexpected error processing page", page_num))>>)
            /\ all_descriptions' =
                  Append(all_descriptions,
                         Desc("Error: An unexpected error occurred", page_num))
            /\ pc' = "loop"
            /\ UNCHANGED prompt
       ELSE /\ prompt' = prepare_prompt(prompt_key, page_num, total_pages,
                                         cfg.output_language, markdown_context,
                                         pdf_summary)
            /\ pc' = "model"
            /\ UNCHANGED <<all_descriptions, progress_log>>
    /\ UNCHANGED <<cfg, fixed, resolution, summary, document, cleanup,
                   iteration, markdown_context, temp_created, render_calls,
                   overlay_calls, vlm_calls, result>>

\* The provider's describe operation for the configured provider.
get_vlm_description(response) ==
    IF cfg.provider = "openrouter"
    THEN openrouter_get_vlm_description(cfg.openrouter_api_key, cfg.vlm_model,
                                        response)
    ELSE ollama_get_vlm_description(OLLAMA_AVAILABLE, cfg.ollama_endpoint,
                                    cfg.vlm_model, response)

\* Fault: ValueError is handled as an unexpected, page-local error.
ClassifiedErrorsWithoutValueError == {"ConnectionError", "TimeoutError", "ImportError"}

\* except (ValueError, ConnectionError, TimeoutError, ImportError)
ClassifiedErrors == {"ValueError", "ConnectionError", "TimeoutError", "ImportError"}

\* Fault: every exception of the model call aborts the run.
IsCritical_any_exception(outcome) == outcome.raised # ""

IsCritical(outcome) == outcome.raised \in ClassifiedErrors

\* Fault: an empty description gets the default text of the append, not the
\* warning.
page_description_without_warning(outcome, n) ==
    IF outcome.raised # ""
    THEN Desc("Error: Failed to get VLM description", n)
    ELSE IF outcome.value = "Text"
    THEN Desc("Description", n)
    ELSE Desc("No description available.", n)

\* The description recorded for a model call that did not abort the run.
page_description_for(outcome, n) ==
    IF outcome.raised # ""
    THEN Desc("Error: Failed to get VLM description", n)
    ELSE IF outcome.value = "Text"
    THEN Desc("Description", n)
    ELSE Desc("Warning: VLM did not return a description", n)

ApiError(n) == PageMsg("API Error on page. Aborting.", n)

\* The model call.  A classified error is re-raised as ConversionError,
\* which leaves the with block and returns its message; anything else
\* records the page's description.
CallVlm ==
    /\ pc = "model"
    /\ \E response \in ProviderResponses(cfg.provider) :
         LET outcome == get_vlm_description(response)
             calling == Call(current_progress, PageMsg("Calling VLM...", page_num))
         IN /\ vlm_calls' = Append(vlm_calls,
                                   [page |-> page_num, prompt |-> prompt,
                                    response |-> response])
            /\ IF IsCritical(outcome)
               THEN /\ Report(<<calling, Call(current_progress, ApiError(page_num))>>)
                    /\ ExitStack
                    /\ Return(ApiError(page_num), FALSE, NoMarkdown)
                    /\ UNCHANGED all_descriptions
               ELSE /\ all_descriptions' =
                          Append(all_descriptions, page_description_for(outcome, page_num))
                    /\ IF outcome.raised # ""
                       THEN Report(<<calling,
                                     Call(current_progress,
                                          PageMsg("Unexpected error during VLM call",
                                                  page_num))>>)
                       ELSE IF outcome.value = "Text"
                       THEN Report(<<calling>>)
                       ELSE Report(<<calling,
                                     Call(current_progress,
                                          PageMsg("VLM returned no description.",
                                                  page_num))>>)
                    /\ pc' = "loop"
                    /\ UNCHANGED <<cleanup, result>>
    /\ UNCHANGED <<cfg, fixed, resolution, summary, document, iteration,
                   locals, temp_created, prompt_selections, render_calls,
                   overlay_calls>>

\* Fault: an empty description is written as it is.
section_body_verbatim(desc) == desc

\* The text of a page's section: the description, or the default text for
\* an empty one.
section_body(desc) ==
    IF desc.kind = "" THEN Desc("No description generated for this page.", 0)
    ELSE desc

\* Fault: sections are numbered by position, not by page number.
format_markdown_output_sequential(descriptions, original_filename, page_numbers) ==
    [title |-> original_filename,
     sections |-> [k \in 1..Len(descriptions) |->
                     [heading |-> k, body |-> section_body(descriptions[k])]]]

\* format_markdown_output: the title line "# Description of PDF: <name>"
\* and, per description in list order, the section "## Page <N>", its text
\* and the rule "---".  N is the page number at the same position, or the
\* position itself when no page numbers are given (None or an empty list).
format_markdown_output(descriptions, original_filename, page_numbers) ==
    [title |-> original_filename,
     sections |-> [k \in 1..Len(descriptions) |->
                     [heading |-> IF page_numbers # <<>> THEN page_numbers[k] ELSE k,
                      body |-> section_body(descriptions[k])]]]

\* os.path.basename(pdf_path), paths being bare file names.
original_filename == pdf_path

Completed == Msg("Conversion completed successfully")

\* End of the loop: the with block is left, the Markdown is assembled and
\* the run reports completion.
Finish ==
    /\ pc = "loop"
    /\ pos = Len(selected_indices)
    /\ ExitStack
    /\ LET actual_page_numbers ==
               [k \in 1..Len(selected_indices) |-> selected_indices[k] + 1]
       IN /\ Report(<<Call(Hundredths(99), Msg("Combining page descriptions...")),
                      Call(Hundredths(100), Completed)>>)
          /\ Return(Completed, TRUE,
                    format_markdown_output(all_descriptions, original_filename,
                                           actual_page_numbers))
    /\ UNCHANGED <<cfg, fixed, resolution, summary, document, iteration,
                   locals, calls, all_descriptions>>

Next ==
    \/ Validate
    \/ LoadPrompts
    \/ GenerateSummary
    \/ OpenDocument
    \/ SelectPages
    \/ NextPage
    \/ RenderPage
    \/ ExtractMarkdown
    \/ SelectPrompt
    \/ CallVlm
    \/ Finish

Spec == Init /\ [][Next]_vars

\* ------------------------------------------------------------ cli.run_cli

\* A run started from the command line: run_cli has checked that the file
\* exists and that the provider's key or client is there, and calls
\* convert_pdf_to_markdown with the configuration it built.
CliInit ==
    /\ args \in CliArgs
    /\ pdf_path = "document.pdf"
    /\ cfg = run_config(args)
    /\ summary_env \in RunSummaryEnvironments
    /\ (~cfg.use_summary => summary_env = NoSummaryRequest)
    /\ OLLAMA_AVAILABLE = TRUE
    /\ MARKITDOWN_AVAILABLE \in BOOLEAN
    /\ (~cfg.use_markitdown => MARKITDOWN_AVAILABLE)
    /\ pc = "start"
    /\ missing_prompts = {}
    /\ required_prompts = {}
    /\ pdf_summary = "None"
    /\ summary_calls = 0
    /\ pdf_load_progress = 0
    /\ pdf_doc = "None"
    /\ docs_opened = 0
    /\ close_calls = 0
    /\ total_pages = 0
    /\ selected_indices = <<>>
    /\ pos = 0
    /\ stack = <<>>
    /\ temp_files = {}
    /\ temp_created = {}
    /\ markdown_context = "None"
    /\ prompt = NoPrompt
    /\ prompt_selections = <<>>
    /\ all_descriptions = <<>>
    /\ render_calls = <<>>
    /\ overlay_calls = <<>>
    /\ vlm_calls = <<>>
    /\ progress_log = <<>>
    /\ result = NoResult

CliSpec == CliInit /\ [][Next]_vars

\* ---------------------------------------------- the run from page selection

\* The run as it stands when the selection is parsed, for an OpenRouter
\* configuration without overlay text and without summary, over every
\* selection string of SelectionStrings and every page count.
SelectionInit ==
    /\ args = NoArgs
    /\ pdf_path = "document.pdf"
    /\ cfg \in { [provider |-> "openrouter", openrouter_api_key |-> TRUE,
                  ollama_endpoint |-> TRUE, vlm_model |-> TRUE,
                  summary_llm_model |-> TRUE,
                  use_markitdown |-> FALSE, use_summary |-> FALSE,
                  output_language |-> "English", page_selection |-> s] :
                 s \in SelectionStrings }
    /\ summary_env = NoSummaryRequest
    /\ OLLAMA_AVAILABLE = TRUE
    /\ MARKITDOWN_AVAILABLE = TRUE
    /\ pc = "select"
    /\ missing_prompts = {}
    /\ required_prompts = {"vlm_base"}
    /\ pdf_summary = "None"
    /\ summary_calls = 0
    /\ pdf_load_progress = Hundredths(5)
    /\ pdf_doc = "Doc"
    /\ docs_opened = 1
    /\ close_calls = 0
    /\ total_pages \in 1..MaxPages
    /\ selected_indices = <<>>
    /\ pos = 0
    /\ stack = <<CloseCallback>>
    /\ temp_files = {}
    /\ temp_created = {}
    /\ markdown_context = "None"
    /\ prompt = NoPrompt
    /\ prompt_selections = <<>>
    /\ all_descriptions = <<>>
    /\ render_calls = <<>>
    /\ overlay_calls = <<>>
    /\ vlm_calls = <<>>
    /\ progress_log =
          << Call(Hundredths(0), Msg("Starting conversion process...")),
             Call(Hundredths(5), Msg("Analyzing PDF structure...")),
             Call(Hundredths(5),
                  PageMsg("PDF has pages. Starting page processing...", total_pages)) >>
    /\ result = NoResult

SelectionNext ==
    \/ SelectPages
    \/ NextPage
    \/ RenderPage
    \/ ExtractMarkdown
    \/ SelectPrompt
    \/ CallVlm
    \/ Finish

SelectionSpec == SelectionInit /\ [][SelectionNext]_vars

\* ------------------------------------------- format_markdown_output alone

\* The descriptions a caller passes: the empty string, a model's text and a
\* placeholder, each for any page.
Descriptions ==
    {Desc("", 0)}
    \cup { Desc(kind, n) : kind \in {"Description", "Error: Could not render image"},
                           n \in 1..MaxPages }

\* The lists of at most MaxPages descriptions.
DescriptionLists ==
    UNION { [1..n -> Descriptions] : n \in 0..MaxPages }

\* Ascending index lists of length n over the pages of the largest document.
IndexLists(n) ==
    { SortedSeq(S) : S \in { T \in SUBSET (0..(MaxPages - 1)) : Cardinality(T) = n } }

\* A call of format_markdown_output on its own, the way the final assembly
\* makes it, for any list of descriptions: the selected indices are as many
\* as the descriptions, or none at all (no page numbers are then passed).
FormatInit ==
    /\ args = NoArgs
    /\ pdf_path \in {"document.pdf", "report.pdf"}
    /\ cfg \in { c \in Configs : /\ c.provider = "openrouter" /\ c.openrouter_api_key
                                 /\ ~c.use_markitdown /\ ~c.use_summary
                                 /\ c.output_language = "English"
                                 /\ c.vlm_model
                                 /\ c.page_selection = NoSelection }
    /\ summary_env = NoSummaryRequest
    /\ OLLAMA_AVAILABLE = TRUE
    /\ MARKITDOWN_AVAILABLE = TRUE
    /\ pc = "format"
    /\ missing_prompts = {}
    /\ required_prompts = {"vlm_base"}
    /\ pdf_summary = "None"
    /\ summary_calls = 0
    /\ pdf_load_progress = Hundredths(5)
    /\ pdf_doc = "Doc"
    /\ docs_opened = 1
    /\ close_calls = 1
    /\ total_pages = MaxPages
    /\ all_descriptions \in DescriptionLists
    /\ selected_indices \in IndexLists(Len(all_descriptions)) \cup {<<>>}
    /\ pos = Len(selected_indices)
    /\ stack = <<>>
    /\ temp_files = {}
    /\ temp_created = {}
    /\ markdown_context = "None"
    /\ prompt = NoPrompt
    /\ prompt_selections = <<>>
    /\ render_calls = <<>>
    /\ overlay_calls = <<>>
    /\ vlm_calls = <<>>
    /\ progress_log = <<>>
    /\ result = NoResult

\* actual_page_numbers = [i + 1 for i in selected_indices] and the call of
\* format_markdown_output on it.
FormatMarkdown ==
    /\ pc = "format"
    /\ LET actual_page_numbers ==
               [k \in 1..Len(selected_indices) |-> selected_indices[k] + 1]
       IN Return(Msg(""), TRUE,
                 format_markdown_output(all_descriptions, original_filename,
                                        actual_page_numbers))
    /\ UNCHANGED <<cfg, fixed, resolution, summary, document, cleanup, iteration,
                   locals, calls, all_descriptions, progress_log>>

FormatSpec == FormatInit /\ [][FormatMarkdown]_vars

\* ------------------------------------------------ generate_summary alone

\* The summary step for any provider name, with and without the key, the
\* endpoint and the model, over every summary request.
SummaryInit ==
    /\ args = NoArgs
    /\ pdf_path = "document.pdf"
    /\ cfg \in { c \in [provider : Providers,
                        openrouter_api_key : BOOLEAN,
                        ollama_endpoint : BOOLEAN,
                        vlm_model : {TRUE},
                        summary_llm_model : BOOLEAN,
                        use_markitdown : {FALSE},
                        use_summary : {TRUE},
                        output_language : {"English"},
                        page_selection : {NoSelection}] : TRUE }
    /\ summary_env \in { e \in SummaryEnvironments : e.defined }
    /\ OLLAMA_AVAILABLE \in BOOLEAN
    /\ MARKITDOWN_AVAILABLE = TRUE
    /\ pc = "summary"
    /\ missing_prompts = {}
    /\ required_prompts = {"vlm_base", "vlm_summary", "summary"}
    /\ pdf_summary = "None"
    /\ summary_calls = 0
    /\ pdf_load_progress = 0
    /\ pdf_doc = "None"
    /\ docs_opened = 0
    /\ close_calls = 0
    /\ total_pages = 0
    /\ selected_indices = <<>>
    /\ pos = 0
    /\ stack = <<>>
    /\ temp_files = {}
    /\ temp_created = {}
    /\ markdown_context = "None"
    /\ prompt = NoPrompt
    /\ prompt_selections = <<>>
    /\ all_descriptions = <<>>
    /\ render_calls = <<>>
    /\ overlay_calls = <<>>
    /\ vlm_calls = <<>>
    /\ progress_log = <<Call(Hundredths(0), Msg("Starting conversion process..."))>>
    /\ result = NoResult

SummarySpec == SummaryInit /\ [][GenerateSummary]_vars

\* ------------------------------------------------------------- properties

Done == pc = "done"

\* The rank of a selected index in the iteration order.
RankOf(index) ==
    CHOOSE r \in 1..Len(selected_indices) : selected_indices[r] = index

\* The iteration of the page at rank r has ended.
IterationEnded(r) == pos > r \/ (pos = r /\ pc \in {"loop", "done"})

Rendered(n) == \E k \in 1..Len(render_calls) : render_calls[k].index + 1 = n
ModelCalled(n) == \E k \in 1..Len(vlm_calls) : vlm_calls[k].page = n
OverlayTextProduced(n) ==
    \E k \in 1..Len(overlay_calls) :
        overlay_calls[k].index + 1 = n /\ overlay_calls[k].text # "None"

\* C1: in every run in which a Document was opened, its close has been
\* invoked exactly once when the function has returned.
C1_DocumentClosedExactlyOnce ==
    (Done /\ docs_opened > 0) => close_calls = 1

\* C2: when the function has returned, none of the temporary single-page
\* files the run created exists.
C2_TempFilesRemoved ==
    Done => temp_files = {}

\* A provider abort after two pages each got their file, one of them with a
\* failed extraction.
C2_Witness ==
    /\ Done
    /\ Cardinality(temp_created) >= 2
    /\ result.status.msg = "API Error on page. Aborting."
    /\ \E k \in 1..Len(overlay_calls) :
          overlay_calls[k].text = "None" /\ overlay_calls[k].index \in temp_created

ClaimedProviderErrors == {"ValueError", "ConnectionError", "TimeoutError", "ImportError"}

\* C3: a model call that raises ValueError, ConnectionError, TimeoutError or
\* ImportError ends the run with (error message, no Markdown), and no page
\* after it is rendered, overlay-extracted or sent to the model.
C3_ProviderErrorAborts ==
    \A k \in 1..Len(vlm_calls) :
        get_vlm_description(vlm_calls[k].response).raised \in ClaimedProviderErrors
        => /\ Done
           /\ result = [status |-> ApiError(vlm_calls[k].page),
                        present |-> FALSE, markdown |-> NoMarkdown]
           /\ k = Len(vlm_calls)
           /\ \A j \in 1..Len(render_calls) :
                 render_calls[j].index + 1 <= vlm_calls[k].page
           /\ \A j \in 1..Len(overlay_calls) :
                 overlay_calls[j].index + 1 <= vlm_calls[k].page

\* The abort happens on the second model call, after a page was described
\* and with a selected page still to come.
C3_Witness ==
    /\ Done
    /\ Len(vlm_calls) = 2
    /\ get_vlm_description(vlm_calls[2].response).raised \in ClaimedProviderErrors
    /\ all_descriptions # <<>>
    /\ all_descriptions[1].kind = "Description"
    /\ pos < Len(selected_indices)

C5_ResultsMatchSelection ==
    /\ \A k \in 1..(Len(selected_indices) - 1) :
          selected_indices[k] < selected_indices[k + 1]
    /\ pc = "loop" => Len(all_descriptions) = pos
    /\ pc \in {"render", "overlay", "prompt", "model"} => Len(all_descriptions) = pos - 1
    /\ \A k \in 1..Len(all_descriptions) :
          all_descriptions[k].page = selected_indices[k] + 1
    /\ (Done /\ result.present) =>
          /\ Len(all_descriptions) = Len(selected_indices)
          /\ Len(result.markdown.sections) = Len(selected_indices)
          /\ \A k \in 1..Len(selected_indices) :
                /\ result.markdown.sections[k].heading = selected_indices[k] + 1
                /\ result.markdown.sections[k].body = all_descriptions[k]
                /\ result.markdown.sections[k].body.page = result.markdown.sections[k].heading

\* Final assembly of a selection that skips a page, with two different
\* kinds of degraded page.
C5_Witness ==
    /\ Done
    /\ result.present
    /\ selected_indices = <<0, 2>>
    /\ all_descriptions[1].kind = "Error: Could not render image"
    /\ all_descriptions[2].kind = "Error: Failed to get VLM description"

\* C6: when a required template is missing from the store, the run has
\* returned (error message, no Markdown) and no summary call, no document
\* open, no render and no model call was made.
C6_MissingPromptFailsFast ==
    missing_prompts # {}
    => /\ Done
       /\ result = [status |-> PromptsError, present |-> FALSE, markdown |-> NoMarkdown]
       /\ summary_calls = 0
       /\ docs_opened = 0
       /\ render_calls = <<>>
       /\ vlm_calls = <<>>

\* Overlay and summary requested, the "full" template absent from the store.
C6_Witness ==
    /\ Done
    /\ cfg.use_markitdown
    /\ cfg.use_summary
    /\ missing_prompts = {"vlm_full"}

SummaryFailed == summary_calls > 0 /\ pdf_summary = "None"

\* C7: after a summary generation that raised or returned nothing,
\* use_summary is false, every page's prompt variant is the base one, or the
\* overlay-only one exactly when overlay text was produced for the page, and
\* the status returned is never the summary's warning.
C7_SummaryFailureDegrades ==
    SummaryFailed
    => /\ ~cfg.use_summary
       /\ \A k \in 1..Len(prompt_selections) :
             /\ prompt_selections[k].key \in {"vlm_base", "vlm_markdown"}
             /\ prompt_selections[k].key = "vlm_markdown"
                  <=> OverlayTextProduced(prompt_selections[k].page)
       /\ \A k \in 1..Len(vlm_calls) : vlm_calls[k].prompt.key = "vlm_base"
       /\ pc \notin {"start", "prompts", "summary"}
       /\ Done => result.status.msg \notin {"Warning: Summary generation failed",
                                            "Warning: Could not generate summary"}

\* A run that completes after a failed summary, with a base prompt sent to
\* the model and an overlay-only variant chosen.
C7_Witness ==
    /\ Done
    /\ result.present
    /\ SummaryFailed
    /\ vlm_calls # <<>>
    /\ \E k \in 1..Len(prompt_selections) : prompt_selections[k].key = "vlm_markdown"

\* C8: the fractions of successive progress callbacks are non-decreasing and
\* within [0, 1], and the last one is 1.0 when the run succeeded.
C8_ProgressMonotone ==
    /\ \A j, k \in 1..Len(progress_log) :
          j < k => progress_log[j].frac <= progress_log[k].frac
    /\ \A k \in 1..Len(progress_log) :
          progress_log[k].frac >= 0 /\ progress_log[k].frac <= Hundredths(100)
    /\ (Done /\ result.present) =>
          progress_log[Len(progress_log)].frac = Hundredths(100)

\* C9: for either provider, a model call answered without the expected
\* content field aborts the run with no Markdown.
C9_MissingContentAborts ==
    \A k \in 1..Len(vlm_calls) :
        vlm_calls[k].response = "no_content_field"
        => /\ Done
           /\ result = [status |-> ApiError(vlm_calls[k].page),
                        present |-> FALSE, markdown |-> NoMarkdown]

\* C10: a page whose overlay step produced no text is rendered and, once its
\* iteration has ended, was sent to the model with a prompt without overlay
\* context (a page whose prompt preparation raised apart).
C10_OverlayFailureStillCallsModel ==
    \A k \in 1..Len(overlay_calls) :
        LET n == overlay_calls[k].index + 1
            r == RankOf(overlay_calls[k].index)
        IN (overlay_calls[k].text = "None" /\ IterationEnded(r))
           => /\ Rendered(n)
              /\ \/ \E j \in 1..Len(vlm_calls) :
                       /\ vlm_calls[j].page = n
                       /\ vlm_calls[j].prompt.key \in {"vlm_base", "vlm_summary"}
                 \/ /\ Len(all_descriptions) >= r
                    /\ all_descriptions[r].kind = "Error: An unexpected error occurred"

\* ---------------------------------------------------------- page selection

\* The zero-based pages a section names when it is valid for a document of
\* n pages: a page number within 1..n, or a range a-b with 1 <= a <= b <= n.
\* A blank, non-numeric, out-of-range or inverted section names none.
NamedPages(section, n) ==
    IF section.t = "page" /\ section.a >= 1 /\ section.a <= n
        THEN {section.a - 1}
    ELSE IF section.t = "range" /\ section.a >= 1 /\ section.a <= section.b
            /\ section.b <= n
        THEN (section.a - 1)..(section.b - 1)
    ELSE {}

\* The pages named by the valid sections of the configured selection.
NamedBySelection ==
    UNION { NamedPages(cfg.page_selection.sections[k], total_pages) :
              k \in 1..Len(cfg.page_selection.sections) }

\* The selection string has been parsed.
Parsed == selected_indices # <<>>

Ascending(seq) == \A j, k \in 1..Len(seq) : j < k => seq[j] < seq[k]

\* The page numbers heading the sections of the returned Markdown.
Headings == [k \in 1..Len(result.markdown.sections) |-> result.markdown.sections[k].heading]

\* C11: the parsed selection is the set of pages named by the valid
\* sections, whatever invalid sections stand beside them, and is all pages
\* only when no section names a page.
C11_InvalidTokensDroppedIndividually ==
    (Parsed /\ cfg.page_selection.kind = "str")
    => IF NamedBySelection = {}
       THEN selected_indices = [k \in 1..total_pages |-> k - 1]
       ELSE ToSet(selected_indices) = NamedBySelection

\* Every section of the configured selection string is a valid one.
AllSectionsValid ==
    /\ cfg.page_selection.kind = "str"
    /\ cfg.page_selection.sections # <<>>
    /\ \A k \in 1..Len(cfg.page_selection.sections) :
          NamedPages(cfg.page_selection.sections[k], total_pages) # {}

\* C12: for a selection string of valid sections the parsed selection holds
\* exactly the named pages, strictly ascending and within
\* 0..total_pages-1, and the Markdown of a successful run has one section
\* per such page, in that order.
C12_ValidSelectionSortedAndExact ==
    (Parsed /\ AllSectionsValid)
    => /\ ToSet(selected_indices) = NamedBySelection
       /\ Ascending(selected_indices)
       /\ \A k \in 1..Len(selected_indices) :
             selected_indices[k] >= 0 /\ selected_indices[k] < total_pages
       /\ (Done /\ result.present) =>
             /\ Len(Headings) = Cardinality(NamedBySelection)
             /\ Ascending(Headings)
             /\ ToSet(Headings) = { p + 1 : p \in NamedBySelection }

\* A completed run for "3,1-3": sections out of order and page 3 twice.
C12_Witness ==
    /\ Done
    /\ result.present
    /\ cfg.page_selection = Selection(<<Page(3), Range(1, 3)>>)
    /\ total_pages = 3
    /\ Headings = <<1, 2, 3>>

\* C13: for an absent or empty selection, or a string none of whose
\* sections names a page, the parsed selection is 0..total_pages-1 in
\* natural order, and a successful run rendered every page and returns one
\* section per page of the document.
C13_FallbackToAllPages ==
    (Parsed /\ cfg.page_selection.kind \in {"none", "str"} /\ NamedBySelection = {})
    => /\ Len(selected_indices) = total_pages
       /\ \A k \in 1..total_pages : selected_indices[k] = k - 1
       /\ (Done /\ result.present) =>
             /\ Headings = [k \in 1..total_pages |-> k]
             /\ [k \in 1..Len(render_calls) |-> render_calls[k].index]
                   = [k \in 1..total_pages |-> k - 1]

\* A completed run for "2-1,abc" on a document of several pages.
C13_Witness ==
    /\ Done
    /\ result.present
    /\ cfg.page_selection = Selection(<<Range(2, 1), Word>>)
    /\ total_pages >= 2
    /\ Len(result.markdown.sections) = total_pages

\* ----------------------------------------------------------- final Markdown

\* C14: the Markdown is the title line with the file's name followed by one
\* section per description, in list order; each section is headed by the
\* page number at the description's position and holds the description, or
\* the default text when the description is empty.
C14_MarkdownLayout ==
    (Done /\ result.present)
    => /\ result.markdown.title = pdf_path
       /\ Len(result.markdown.sections) = Len(all_descriptions)
       /\ \A k \in 1..Len(all_descriptions) :
             /\ selected_indices # <<>> =>
                   result.markdown.sections[k].heading = selected_indices[k] + 1
             /\ all_descriptions[k].kind # "" =>
                   result.markdown.sections[k].body = all_descriptions[k]
             /\ all_descriptions[k].kind = "" =>
                   result.markdown.sections[k].body.kind
                       = "No description generated for this page."

\* Three descriptions for pages 1 to 3, the second one empty.
C14_Witness ==
    /\ Done
    /\ result.present
    /\ pdf_path = "report.pdf"
    /\ selected_indices = <<0, 1, 2>>
    /\ Len(all_descriptions) = 3
    /\ all_descriptions[1].kind = "Description"
    /\ all_descriptions[2].kind = ""
    /\ result.markdown.sections[2].body.kind = "No description generated for this page."
    /\ result.markdown.sections[3].heading = 3

\* ------------------------------------------------------- terminal outcomes

\* Some model call raised one of the four classified errors.
ProviderAborted ==
    \E k \in 1..Len(vlm_calls) :
        get_vlm_description(vlm_calls[k].response).raised \in ClaimedProviderErrors

\* The run passed validation and prompt resolution, opened a document with
\* pages, parsed the selection and finished the loop over it without a
\* classified provider error.
RanToCompletion ==
    /\ required_prompts # {}
    /\ pdf_doc = "Doc"
    /\ total_pages > 0
    /\ Parsed
    /\ Len(all_descriptions) = Len(selected_indices)
    /\ ~ProviderAborted

FailureMessages ==
    { "Error: OpenRouter API Key is missing.",
      "Error: Ollama Python client not installed.",
      "Error: Could not connect to Ollama.",
      "Error: Unknown provider.",
      "Error: Invalid or missing PDF file.",
      "Error: Could not load all required prompt templates.",
      "Error: Could not process PDF file",
      "Error: PDF file is empty",
      "API Error on page. Aborting.",
      "Critical Error during conversion" }

\* C15: a returned run has a non-empty status; its Markdown is present
\* exactly when it ran to completion, and then the status is the completion
\* message, while an absent Markdown comes with one of the failure messages.
C15_OutcomeIsStatusAndOptionalMarkdown ==
    Done
    => /\ result.status.msg # ""
       /\ result.present <=> RanToCompletion
       /\ result.present => result.status = Completed
       /\ ~result.present =>
             /\ result.markdown = NoMarkdown
             /\ result.status.msg \in FailureMessages

\* A run ended by the top-level handler after the document was opened.
C15_Witness ==
    /\ Done
    /\ ~result.present
    /\ result.status = CriticalError
    /\ pdf_doc = "Doc"
    /\ total_pages > 0

\* C16: a model call that raised an exception outside the four classified
\* ones leaves the error placeholder at its page's rank, and the run goes
\* on: when it has returned, either Markdown is present with a section for
\* every selected page, or a model call of a later page aborted it.
C16_UnclassifiedErrorIsPageLocal ==
    \A k \in 1..Len(vlm_calls) :
        get_vlm_description(vlm_calls[k].response).raised
            \notin (ClaimedProviderErrors \cup {""})
        => LET n == vlm_calls[k].page
               r == RankOf(n - 1)
               placeholder == Desc("Error: Failed to get VLM description", n)
           IN /\ Len(all_descriptions) >= r
              /\ all_descriptions[r] = placeholder
              /\ Done =>
                   \/ /\ result.present
                      /\ result.status = Completed
                      /\ Len(result.markdown.sections) = Len(selected_indices)
                      /\ result.markdown.sections[r]
                            = [heading |-> n, body |-> placeholder]
                      /\ \A q \in 1..Len(selected_indices) :
                            Rendered(selected_indices[q] + 1)
                   \/ /\ ~result.present
                      /\ result.status.msg = "API Error on page. Aborting."
                      /\ result.status.page > n

\* The first of three pages raises an unclassified exception; the other two
\* are described and the run completes.
C16_Witness ==
    /\ Done
    /\ result.present
    /\ Len(vlm_calls) = 3
    /\ vlm_calls[1].response = "other_exception"
    /\ all_descriptions[1].kind = "Error: Failed to get VLM description"
    /\ all_descriptions[2].kind = "Description"
    /\ all_descriptions[3].kind = "Description"

\* C17: a model call that returned without raising and without a
\* description (None or the empty string) leaves the warning placeholder
\* at its page's rank and does not end the run: a run that has returned
\* without Markdown was aborted by a model call of a later page.
C17_EmptyDescriptionIsPageLocal ==
    \A k \in 1..Len(vlm_calls) :
        (/\ get_vlm_description(vlm_calls[k].response).raised = ""
         /\ get_vlm_description(vlm_calls[k].response).value \in {"None", "Empty"})
        => LET n == vlm_calls[k].page
               r == RankOf(n - 1)
               placeholder == Desc("Warning: VLM did not return a description", n)
           IN /\ Len(all_descriptions) >= r
              /\ all_descriptions[r] = placeholder
              /\ (pc = "loop" /\ pos = r /\ r < Len(selected_indices))
                    => ENABLED NextPage
              /\ Done =>
                   \/ /\ result.present
                      /\ result.markdown.sections[r]
                            = [heading |-> n, body |-> placeholder]
                   \/ /\ ~result.present
                      /\ k < Len(vlm_calls)
                      /\ result.status = ApiError(vlm_calls[Len(vlm_calls)].page)
                      /\ result.status.page > n

\* With the local provider: page 1 comes back empty, page 2 is described.
C17_Witness ==
    /\ Done
    /\ result.present
    /\ cfg.provider = "ollama"
    /\ Len(vlm_calls) = 2
    /\ vlm_calls[1].response = "empty_content"
    /\ all_descriptions[1].kind = "Warning: VLM did not return a description"
    /\ all_descriptions[2].kind = "Description"

\* ------------------------------------------------------ pre-flight failures

PreflightMessages ==
    { "Error: Unknown provider.",
      "Error: OpenRouter API Key is missing.",
      "Error: Ollama Python client not installed.",
      "Error: Could not connect to Ollama.",
      "Error: Invalid or missing PDF file." }

\* C18: a run that failed pre-flight validation invoked the progress
\* callback exactly once, with fraction 0.0 and the status it returns, and
\* returns no Markdown.
C18_PreflightFailureReportsOnce ==
    (Done /\ result.status.msg \in PreflightMessages)
    => /\ ~result.present
       /\ progress_log = <<Call(Hundredths(0), result.status)>>

\* ---------------------------------------------------------- summary request

\* The provider named in the configuration is a supported one and its
\* credential (or endpoint) is given.
SummaryProviderUsable ==
    \/ cfg.provider = "openrouter" /\ cfg.openrouter_api_key
    \/ cfg.provider = "ollama" /\ cfg.ollama_endpoint

\* The summary request gets as far as the provider's summarize operation.
SummaryReachesProvider ==
    /\ SummaryProviderUsable
    /\ summary_env.extraction = "Text"
    /\ summary_env.template

\* The summarize operation of the named provider answers with a summary.
ProviderSummarizes ==
    /\ summary_env.response = "content"
    /\ cfg.provider = "ollama" => OLLAMA_AVAILABLE

ClientArgumentMissing ==
    \/ cfg.provider = "openrouter" /\ ~cfg.openrouter_api_key
    \/ cfg.provider = "ollama" /\ ~cfg.ollama_endpoint
    \/ ~cfg.vlm_model

\* C20: a describe call made without the key, the endpoint or the model
\* identifier raises ValueError and sends no request to the provider.
C20_MissingArgumentRaisesBeforeRequest ==
    \A k \in 1..Len(vlm_calls) :
        ClientArgumentMissing
        => /\ get_vlm_description(vlm_calls[k].response).raised = "ValueError"
           /\ ~get_vlm_description(vlm_calls[k].response).requested

\* ------------------------------------------------------------ command line

\* C21: in a run started from the command line, the pages the loop
\* iterates are the pages that the selection typed by the user parses to.
C21_CliPassesPageSelection ==
    (args.cli /\ Parsed)
    => selected_indices = parse_page_selection(args.pages, total_pages)

\* C22: at every point of a run at most one temporary single-page file
\* exists: the file of a page is gone before the file of the next selected
\* page is created.
C22_AtMostOneTempFile == Cardinality(temp_files) <= 1

\* The exits on which no usable document was obtained.
DocumentErrorMessages ==
    {Msg("Error: Could not process PDF file"), Msg("Error: PDF file is empty")}

\* C23: when the run returns on a document error (the file cannot be parsed,
\* a page fails to load after the file was opened, or the document has no
\* pages), every document handle opened during the run has been closed.
C23_DocumentErrorExitClosesHandles ==
    (Done /\ result.status \in DocumentErrorMessages)
    => close_calls = docs_opened

\* The pages, in call order, that a history of calls is about.
RenderedIndices == [k \in 1..Len(render_calls) |-> render_calls[k].index]
OverlayIndices == [k \in 1..Len(overlay_calls) |-> overlay_calls[k].index]
PromptPages == [k \in 1..Len(prompt_selections) |-> prompt_selections[k].page]
ModelPages == [k \in 1..Len(vlm_calls) |-> vlm_calls[k].page]
RecordedPages == [k \in 1..Len(all_descriptions) |-> all_descriptions[k].page]

\* A page is being processed: its iteration has started and has not recorded
\* a result.
InPage == pc \in {"render", "overlay", "prompt", "model"}

ImageRendered(index) ==
    \E k \in 1..Len(render_calls) :
        render_calls[k].index = index /\ render_calls[k].image

\* C24: pages are processed one at a time in ascending selected-page order.
\* The renders follow the selection in ascending order; overlay extraction,
\* prompt selection and model call happen at most once per page, in ascending
\* page order, each only after the step before it on the same page; results
\* are recorded in the same order; and while a page is being processed the
\* results of all smaller selected pages have been recorded and no later
\* page has had any step.
C24_PagesSequentialAscending ==
    /\ Len(render_calls) = (IF pc = "render" THEN pos - 1 ELSE pos)
    /\ \A k \in 1..Len(render_calls) : render_calls[k].index = selected_indices[k]
    /\ Ascending(RenderedIndices)
    /\ Ascending(OverlayIndices) /\ Ascending(PromptPages) /\ Ascending(ModelPages)
    /\ \A k \in 1..Len(overlay_calls) : ImageRendered(overlay_calls[k].index)
    /\ \A k \in 1..Len(prompt_selections) :
          /\ ImageRendered(prompt_selections[k].page - 1)
          /\ cfg.use_markitdown
             => prompt_selections[k].page - 1 \in ToSet(OverlayIndices)
    /\ ToSet(ModelPages) \subseteq ToSet(PromptPages)
    /\ RecordedPages = [k \in 1..Len(all_descriptions) |-> selected_indices[k] + 1]
    /\ \A n \in ToSet(ModelPages) :
          n \in ToSet(RecordedPages) \/ (pos > 0 /\ n = page_num)
    /\ InPage =>
          /\ Len(all_descriptions) = pos - 1
          /\ pc \in {"render", "overlay"} => i \notin ToSet(OverlayIndices)
          /\ pc \in {"render", "overlay", "prompt"} => page_num \notin ToSet(PromptPages)
          /\ page_num \notin ToSet(ModelPages)
    /\ pc = "loop" => Len(all_descriptions) = pos

\* A selection that skips a page is iterated: the third page is at the model
\* call after the first page's result was recorded, the second page untouched.
C24_Witness ==
    /\ pc = "model"
    /\ selected_indices = <<0, 2>>
    /\ pos = 2
    /\ cfg.use_markitdown
    /\ ModelPages = <<1>>
    /\ RecordedPages = <<1>>

\* The resolution of the required templates has run.
PromptsResolved ==
    \/ pc \in {"summary", "open", "select", "loop", "render", "overlay",
               "prompt", "model"}
    \/ (Done /\ (result.status = PromptsError \/ required_prompts # {}))

\* The summary was requested when the templates were resolved: the flag is
\* set, or it was cleared by a summary attempt.
SummaryRequested == cfg.use_summary \/ summary_calls > 0

\* C25: the resolved map has exactly the base template, the one variant for
\* the requested combination of overlay and summary, and the standalone
\* summary template whenever the summary is requested; it is empty when one
\* of these is not loaded.
C25_RequiredPromptsExact ==
    PromptsResolved =>
        IF missing_prompts # {} THEN required_prompts = {}
        ELSE CASE cfg.use_markitdown /\ SummaryRequested ->
                    required_prompts = {"vlm_base", "vlm_full", "summary"}
               [] cfg.use_markitdown /\ ~SummaryRequested ->
                    required_prompts = {"vlm_base", "vlm_markdown"}
               [] ~cfg.use_markitdown /\ SummaryRequested ->
                    required_prompts = {"vlm_base", "vlm_summary", "summary"}
               [] OTHER -> required_prompts = {"vlm_base"}

\* Overlay and summary are both requested and all their templates are loaded.
C25_Witness ==
    /\ pc = "summary"
    /\ cfg.use_markitdown /\ cfg.use_summary
    /\ required_prompts = {"vlm_base", "vlm_full", "summary"}

\* What the overlay extraction of page n left for the prompt: its text, or
\* "N/A" when there was no extraction, it failed, or the text is empty.
OverlayContextOf(n) ==
    IF \E k \in 1..Len(overlay_calls) :
          overlay_calls[k].index + 1 = n /\ overlay_calls[k].text = "Text"
    THEN "Text" ELSE "N/A"

\* What the summary step left for the prompts.
SummaryContext == IF pdf_summary = "None" THEN "N/A" ELSE pdf_summary

\* C26: in the prompt sent for a page, [PAGE_NUM] is the page's 1-based
\* number in the document (not its rank in the selection), [TOTAL_PAGES] is
\* the page count of the document (not of the selection), [MARKDOWN_CONTEXT]
\* is the page's overlay text and [SUMMARY_CONTEXT] the summary, each the
\* literal "N/A" when absent or empty.
C26_PlaceholdersFilled ==
    /\ pc = "model" => prompt.page_num = selected_indices[pos] + 1
    /\ \A k \in 1..Len(vlm_calls) :
          LET sent == vlm_calls[k].prompt IN
          /\ sent.page_num = vlm_calls[k].page
          /\ sent.page_num - 1 \in ToSet(selected_indices)
          /\ sent.total_pages = total_pages
          /\ sent.markdown_context = OverlayContextOf(sent.page_num)
          /\ sent.summary_context = SummaryContext

\* The model is called for page 3 of 3, the second of two selected pages,
\* with an empty overlay text and no summary.
C26_Witness ==
    /\ selected_indices = <<0, 2>>
    /\ total_pages = 3
    /\ \E k \in 1..Len(vlm_calls) :
          /\ vlm_calls[k].page = 3
          /\ vlm_calls[k].prompt.key = "vlm_markdown"
          /\ vlm_calls[k].prompt.total_pages = 3
          /\ vlm_calls[k].prompt.markdown_context = "N/A"
          /\ vlm_calls[k].prompt.summary_context = "N/A"
    /\ \E k \in 1..Len(overlay_calls) :
          overlay_calls[k].index = 2 /\ overlay_calls[k].text = "Empty"

\* C27: a step of the run leaves every entry of cfg as it is, except that
\* use_summary goes from true to false in the step in which the summary
\* generation raised or returned nothing.
C27_CfgOnlyLosesSummaryFlag ==
    [][ \/ cfg' = cfg
        \/ /\ cfg.use_summary
           /\ cfg' = [cfg EXCEPT !.use_summary = FALSE]
           /\ summary_calls' = summary_calls + 1
           /\ pdf_summary' = "None" ]_vars

\* The summary step has just cleared the flag of a run that asked for overlay
\* text as well.
C27_Witness ==
    /\ pc = "open"
    /\ summary_calls = 1
    /\ pdf_summary = "None"
    /\ ~cfg.use_summary
    /\ cfg.use_markitdown
    /\ "summary" \in required_prompts

\* C28: the summary generation is attempted at most once in a run, only
\* when use_summary is set, and before the document is opened or a page is
\* rendered; every page prompt with a summary context carries the value that
\* attempt produced.
C28_SummaryOncePerRun ==
    /\ [](/\ summary_calls <= 1
          /\ \A k \in 1..Len(vlm_calls) :
                vlm_calls[k].prompt.key \in {"vlm_summary", "vlm_full"}
                => /\ summary_calls = 1
                   /\ vlm_calls[k].prompt.summary_context = pdf_summary)
    /\ [][ summary_calls' # summary_calls
           => /\ summary_calls = 0 /\ summary_calls' = 1
              /\ cfg.use_summary
              /\ docs_opened = 0 /\ docs_opened' = 0
              /\ render_calls = <<>> /\ render_calls' = <<>> ]_vars
    /\ [][ summary_calls > 0 => pdf_summary' = pdf_summary ]_vars

\* Two pages have been sent to the model with the summary of the one attempt.
C28_Witness ==
    /\ summary_calls = 1
    /\ pdf_summary = "Text"
    /\ Len(vlm_calls) = 2
    /\ \A k \in 1..Len(vlm_calls) :
          /\ vlm_calls[k].prompt.key = "vlm_summary"
          /\ vlm_calls[k].prompt.summary_context = "Text"

\* C29: in a run that passed prompt resolution, the template key chosen for
\* a page is always in the map resolved at the start of the run, so the
\* "missing prompt template" placeholder is never recorded and every page
\* rendered to an image gets a model call.
C29_ChosenTemplateResolved ==
    /\ \A k \in 1..Len(prompt_selections) :
          prompt_selections[k].key \in required_prompts
    /\ \A k \in 1..Len(all_descriptions) :
          all_descriptions[k].kind # "Error: missing prompt template"

\* C30: on every exit path the status message returned is the status of the
\* last progress callback of the run.
C30_ReturnedStatusIsLastReported ==
    Done => /\ progress_log # <<>>
            /\ result.status = progress_log[Len(progress_log)].status

\* A run aborted by the provider on its second page has returned the abort
\* message it reported last.
C30_Witness ==
    /\ Done
    /\ result.status = ApiError(2)
    /\ Len(vlm_calls) = 2
    /\ progress_log[Len(progress_log)] = Call(current_progress_of(2), ApiError(2))

====
